---- MODULE Spec2Model ----
(***************************************************************************)
(* Model of frontend/src/components/SubmissionTab.js.                      *)
(*                                                                         *)
(* The file holds two React components that track abuse-report             *)
(* submissions:                                                            *)
(*   - WebRiskDemo (lines 279-895): scan, create (handleSubmit), per-record*)
(*     refresh (refreshSubmissionStatus), clear, localStorage persistence; *)
(*   - SubmissionTab / SubmissionForm (lines 23-251): create and a bulk    *)
(*     refresh over all PENDING records, held in memory only.              *)
(*                                                                         *)
(* React semantics that the model keeps: a handler is a closure over the   *)
(* state of the render it was created in.  An event runs the handler of    *)
(* the latest render; an async handler that resumes after an await still   *)
(* reads the values it captured when it was started.  A setX(v) call       *)
(* replaces the state with v.  Each request in flight therefore carries    *)
(* the captured values of its handler.                                     *)
(***************************************************************************)
EXTENDS Naturals, Sequences, FiniteSets, Bags

(* ------------------------------ bounds --------------------------------- *)
\* instants of the wall clock: each handler run that reads the clock
\* (Date.now(), new Date()) reads a later instant than the run before it, so
\* MaxTime - 1 such runs happen in one behaviour
MaxTime == 5
\* the last instant of a session that goes through clears and restarts
MaxLifecycleTime == 4
\* operation handles the submission backend hands out
MaxCreates == 2
\* status requests of WebRiskDemo.refreshSubmissionStatus in flight at once
MaxInFlight == 2
\* scans started in one session
MaxScans == 3
\* scans started in a session that goes on to the submission shortcut
MaxQuickScans == 1
\* bulk refreshes of SubmissionTab in flight at once
MaxBulk == 1

(* --------------------------- value domains ----------------------------- *)
\* a JavaScript undefined in a string-valued place
Undefined == "undefined"
\* a missing/falsy operation handle (data.operation is undefined or "")
NoOperation == <<>>

ABUSE_TYPES == {"MALWARE", "SOCIAL_ENGINEERING", "UNWANTED_SOFTWARE"}

PLATFORMS == {"PLATFORM_UNSPECIFIED", "ANDROID", "IOS", "MACOS", "WINDOWS"}

\* what the user types or selects
UrlInputs == {"", "http://evil.example"}
EvidenceInputs == {"", "phish"}
AbuseTypeOptions == {"", "MALWARE"}
PlatformOptions == {"PLATFORM_UNSPECIFIED", "ANDROID"}

\* the state every submissionForm starts from and is reset to
BlankForm ==
  [url |-> "", evidence |-> "", abuseType |-> "",
   platform |-> "PLATFORM_UNSPECIFIED", regionCodes |-> <<"US">>]

\* the handle the backend assigns to its n-th report, as path segments:
\* "submissions/<n>"
Operation(n) == <<"submissions", n>>

\* the timestamp the backend puts on its n-th report: its own clock, which
\* moves forward from one report to the next
BackendTime(n) == n

\* operation.split('/').pop()
PollId(operation) == operation[Len(operation)]

\* useState(null) of expandedResultId: no result is expanded (ids start at 1)
NoResult == 0

(* ------------------------ persistent storage --------------------------- *)
\* localStorage.getItem(STORAGE_KEY) === null
Absent == [kind |-> "absent"]

StringKeys == {"status", "details"}

\* JSON.stringify of one record: a key whose value is undefined is dropped
StringifyRecord(r) ==
  [k \in {k \in DOMAIN r : ~(k \in StringKeys /\ r[k] = Undefined)} |-> r[k]]

\* a save that leaves out the newest record
Stringify_WithoutNewest(list) ==
  [kind |-> "json",
   value |-> [i \in 1..(Len(list) - 1) |-> StringifyRecord(list[i + 1])]]

\* a save that writes the records oldest first
Stringify_Reversed(list) ==
  [kind |-> "json",
   value |-> [i \in 1..Len(list) |-> StringifyRecord(list[Len(list) + 1 - i])]]

\* JSON.stringify(submissions), the slot's content after setItem
Stringify(list) ==
  [kind |-> "json", value |-> [i \in 1..Len(list) |-> StringifyRecord(list[i])]]

\* saveSubmissionsToStorage: setItem throws (quota, disabled storage) when
\* ~writeOk; the failure is caught and the slot keeps its content
saveSubmissionsToStorage(list, slot, writeOk) ==
  IF writeOk THEN Stringify(list) ELSE slot

\* a slot whose content JSON.parse rejects
Unparsable == [kind |-> "text"]

\* what JSON.parse returns for content that is JSON but no array (null, {},
\* 42, "x"): a value without length, map or iterator, written as a tagged
\* value
NotAnArray == <<[notAnArray |-> TRUE]>>

\* a slot whose content is JSON but no array
NotArraySlot == [kind |-> "json", value |-> NotAnArray]

\* loadSubmissionsFromStorage: stored ? JSON.parse(stored) : [], [] on a throw
loadSubmissionsFromStorage(slot) ==
  IF slot.kind = "json" THEN slot.value ELSE <<>>

(* --------------------------- risk classifier --------------------------- *)
HighRiskLevels == {"MEDIUM", "HIGH", "HIGHER", "EXTREMELY_HIGH"}

\* a risk test that starts at HIGH
hasHighRisk_FromHigh(scores) ==
  \E i \in 1..Len(scores) :
    scores[i].confidenceLevel \in {"HIGH", "HIGHER", "EXTREMELY_HIGH"}

\* hasHighRisk(scores): scores?.some(level in MEDIUM..EXTREMELY_HIGH)
hasHighRisk(scores) ==
  \E i \in 1..Len(scores) : scores[i].confidenceLevel \in HighRiskLevels

\* result.scores && hasHighRisk(result.scores): the shortcut is rendered
ShortcutOffered(result) ==
  "scores" \in DOMAIN result /\ hasHighRisk(result.scores)

\* a pre-selection that takes the last risky score instead of the first
RecommendedAbuseType_Last(scores) ==
  IF hasHighRisk(scores)
  THEN LET i == CHOOSE i \in 1..Len(scores) :
                  /\ scores[i].confidenceLevel \in HighRiskLevels
                  /\ \A j \in (i + 1)..Len(scores) :
                       scores[j].confidenceLevel \notin HighRiskLevels
       IN IF scores[i].threatType = Undefined THEN "" ELSE scores[i].threatType
  ELSE ""

\* scores.find(level in MEDIUM..EXTREMELY_HIGH)?.threatType || ''
RecommendedAbuseType(scores) ==
  IF hasHighRisk(scores)
  THEN LET i == CHOOSE i \in 1..Len(scores) :
                  /\ scores[i].confidenceLevel \in HighRiskLevels
                  /\ \A j \in 1..(i - 1) :
                       scores[j].confidenceLevel \notin HighRiskLevels
       IN IF scores[i].threatType = Undefined THEN "" ELSE scores[i].threatType
  ELSE ""

\* the levels the verdict icon takes as harmless (lines 631, 633)
LowLevels == {"SAFE", "LOW"}

\* a verdict that looks at the scores of the scanned URL only
VerdictSafe_OriginalOnly(result) ==
  /\ "scores" \in DOMAIN result
  /\ \A i \in 1..Len(result.scores) :
       result.scores[i].confidenceLevel \in LowLevels

\* the condition of the verdict icon (lines 631-633): the green check mark
\* when it holds, the red triangle otherwise
VerdictSafe(result) ==
  /\ "scores" \in DOMAIN result
  /\ \A i \in 1..Len(result.scores) :
       result.scores[i].confidenceLevel \in LowLevels
  /\ \/ ~result.resolvedUriScore.present
     \/ \A i \in 1..Len(result.resolvedUriScore.scores) :
          result.resolvedUriScore.scores[i].confidenceLevel \in LowLevels

\* data.scores.every(score => score.confidenceLevel === 'SAFE')
IsSafe(scores) ==
  \A i \in 1..Len(scores) : scores[i].confidenceLevel = "SAFE"

(* ------------------------------- state --------------------------------- *)
VARIABLES
  now,            \* the wall clock
  nextOp,         \* backend: number of the next operation handle
  storage,        \* localStorage slot 'webRiskSubmissions'
  activeTab,      \* WebRiskDemo state
  url,
  results,
  loading,
  submissions,
  expandedResultId,
  submissionForm,
  isSubmitting,
  scansStarted,   \* scans started so far (bounded by MaxScans)
  scanReqs,       \* handleScan calls awaiting their response
  createReqs,     \* handleSubmit calls awaiting their response
  refreshReqs,    \* refreshSubmissionStatus calls awaiting their response
  tabSubmissions, \* SubmissionTab state
  sfForm,         \* SubmissionForm state: url, evidence, submissionType
  sfIsSubmitting,
  sfReqs,         \* SubmissionForm.handleSubmit calls awaiting their response
  bulkReqs,       \* SubmissionTab.refreshSubmissionStatus calls in flight
  ev              \* what the handler run that led to this state did, when
                  \* the state itself does not show it ("" otherwise)

demoVars ==
  <<storage, activeTab, url, results, loading, submissions, expandedResultId,
    submissionForm, isSubmitting, scansStarted, scanReqs, createReqs,
    refreshReqs>>

tabVars == <<tabSubmissions, sfForm, sfIsSubmitting, sfReqs, bulkReqs>>

vars == <<now, nextOp, demoVars, tabVars, ev>>

\* a sequence without its i-th element
RemoveAt(s, i) == SubSeq(s, 1, i - 1) \o SubSeq(s, i + 1, Len(s))

BlankSfForm == [url |-> "", evidence |-> "", submissionType |-> ""]

Init ==
  /\ now = 1
  /\ nextOp = 1
  /\ storage = Absent
  /\ activeTab = "scan"
  /\ url = ""
  /\ results = <<>>
  /\ loading = FALSE
  /\ submissions = loadSubmissionsFromStorage(storage)
  /\ expandedResultId = NoResult
  /\ submissionForm = BlankForm
  /\ isSubmitting = FALSE
  /\ scansStarted = 0
  /\ scanReqs = <<>>
  /\ createReqs = <<>>
  /\ refreshReqs = EmptyBag
  /\ tabSubmissions = <<>>
  /\ sfForm = BlankSfForm
  /\ sfIsSubmitting = FALSE
  /\ sfReqs = <<>>
  /\ bulkReqs = <<>>
  /\ ev = ""

(* ------------------------------ the clock ------------------------------ *)
\* a handler run reads the clock; the next read is at a later instant
ClockRead ==
  /\ now < MaxTime
  /\ now' = now + 1

(* ------------------------- WebRiskDemo: scan --------------------------- *)
\* what the scanning backend may answer; kind is "rejected" (fetch threw),
\* "invalid" (response.json() threw) or "json"
NoResolved == [present |-> FALSE]

ScoreLists ==
  { <<>>,
    <<[threatType |-> "MALWARE", confidenceLevel |-> "SAFE"]>>,
    <<[threatType |-> "MALWARE", confidenceLevel |-> "LOW"]>>,
    <<[threatType |-> "MALWARE", confidenceLevel |-> "SAFE"],
      [threatType |-> "SOCIAL_ENGINEERING", confidenceLevel |-> "HIGH"]>>,
    <<[threatType |-> "UNWANTED_SOFTWARE", confidenceLevel |-> "MEDIUM"],
      [threatType |-> "MALWARE", confidenceLevel |-> "EXTREMELY_HIGH"]>>,
    <<[threatType |-> "SOCIAL_ENGINEERING_EXTENDED_COVERAGE",
       confidenceLevel |-> "MEDIUM"]>> }

ResolvedScores ==
  { NoResolved,
    [present |-> TRUE, resolvedUri |-> "http://landing.example",
     scores |-> <<[threatType |-> "MALWARE", confidenceLevel |-> "LOW"]>>],
    [present |-> TRUE, resolvedUri |-> "http://landing.example",
     scores |-> <<[threatType |-> "MALWARE", confidenceLevel |-> "HIGH"]>>] }

ScanResponses ==
  [kind : {"rejected"}, message : {"Failed to fetch", ""},
   hasScores : {FALSE}, scores : {<<>>}, resolvedUriScore : {NoResolved}]
  \cup
  [kind : {"invalid"}, message : {"Unexpected token"},
   hasScores : {FALSE}, scores : {<<>>}, resolvedUriScore : {NoResolved}]
  \cup
  [kind : {"json"}, message : {"No scores received from API"},
   hasScores : {FALSE}, scores : {<<>>}, resolvedUriScore : {NoResolved}]
  \cup
  [kind : {"json"}, message : {""},
   hasScores : {TRUE}, scores : ScoreLists, resolvedUriScore : ResolvedScores]

\* onChange of the URL input (line 568)
SetUrl(v) ==
  /\ activeTab = "scan"
  /\ v # url
  /\ url' = v
  /\ ev' = ""
  /\ UNCHANGED <<now, nextOp, storage, activeTab, results, loading, submissions,
                 expandedResultId, submissionForm, isSubmitting, scansStarted,
                 scanReqs, createReqs, refreshReqs, tabVars>>

\* the tab buttons (lines 533-552)
SetActiveTab(t) ==
  /\ t # activeTab
  /\ activeTab' = t
  /\ ev' = ""
  /\ UNCHANGED <<now, nextOp, storage, url, results, loading, submissions,
                 expandedResultId, submissionForm, isSubmitting, scansStarted,
                 scanReqs, createReqs, refreshReqs, tabVars>>

\* a scan button that stays enabled while a scan is in flight
ScanClick_NotDisabled ==
  /\ activeTab = "scan"
  /\ url # ""
  /\ scansStarted < MaxScans
  /\ scansStarted' = scansStarted + 1
  /\ loading' = TRUE
  /\ scanReqs' = Append(scanReqs, [url |-> url, results |-> results])
  /\ ev' = ""
  /\ UNCHANGED <<now, nextOp, storage, activeTab, url, results, submissions,
                 expandedResultId, submissionForm, isSubmitting, createReqs,
                 refreshReqs, tabVars>>

\* handleScan up to its first await; the button is disabled={!url || loading}
ScanClick ==
  /\ activeTab = "scan"
  /\ url # ""
  /\ ~loading
  /\ scansStarted < MaxScans
  /\ scansStarted' = scansStarted + 1
  /\ loading' = TRUE
  /\ scanReqs' = Append(scanReqs, [url |-> url, results |-> results])
  /\ ev' = ""
  /\ UNCHANGED <<now, nextOp, storage, activeTab, url, results, submissions,
                 expandedResultId, submissionForm, isSubmitting, createReqs,
                 refreshReqs, tabVars>>

\* a handleScan that shows the message of the failure as it is
ScanResultOf_RawMessage(req, resp, t) ==
  IF resp.kind = "json" /\ resp.hasScores
  THEN [id |-> t, url |-> req.url,
        status |-> IF IsSafe(resp.scores) THEN "safe" ELSE "threat",
        timestamp |-> t, scores |-> resp.scores,
        resolvedUriScore |-> resp.resolvedUriScore]
  ELSE [id |-> t, url |-> req.url, status |-> "error", timestamp |-> t,
        details |-> resp.message]

\* the ScanResult handleScan builds from a response (lines 379-410)
ScanResultOf(req, resp, t) ==
  IF resp.kind = "json" /\ resp.hasScores
  THEN [id |-> t, url |-> req.url,
        status |-> IF IsSafe(resp.scores) THEN "safe" ELSE "threat",
        timestamp |-> t, scores |-> resp.scores,
        resolvedUriScore |-> resp.resolvedUriScore]
  ELSE [id |-> t, url |-> req.url, status |-> "error", timestamp |-> t,
        details |-> IF resp.message = "" THEN "Failed to scan URL"
                    ELSE resp.message]

\* a handleScan whose setLoading(false) is the last statement of the try
\* block, so that a failure leaves the flag set
ScanResolve_FlagInTry(i, resp) ==
  /\ i \in 1..Len(scanReqs)
  /\ results' = <<ScanResultOf(scanReqs[i], resp, now)>> \o scanReqs[i].results
  /\ loading' = ~(resp.kind = "json" /\ resp.hasScores)
  /\ url' = ""
  /\ scanReqs' = RemoveAt(scanReqs, i)
  /\ ClockRead
  /\ ev' = ""
  /\ UNCHANGED <<nextOp, storage, activeTab, submissions, expandedResultId,
                 submissionForm, isSubmitting, scansStarted, createReqs,
                 refreshReqs, tabVars>>

\* handleScan from the response to its end
ScanResolve(i, resp) ==
  /\ i \in 1..Len(scanReqs)
  /\ results' = <<ScanResultOf(scanReqs[i], resp, now)>> \o scanReqs[i].results
  /\ loading' = FALSE
  /\ url' = ""
  /\ scanReqs' = RemoveAt(scanReqs, i)
  /\ ClockRead
  /\ ev' = ""
  /\ UNCHANGED <<nextOp, storage, activeTab, submissions, expandedResultId,
                 submissionForm, isSubmitting, scansStarted, createReqs,
                 refreshReqs, tabVars>>

\* handleQuickSubmit(result): the form as pre-filled from a result
handleQuickSubmit(form, result) ==
  [form EXCEPT !.url = result.url,
               !.abuseType = RecommendedAbuseType(result.scores)]

\* the shortcut's toggle button (lines 649-662)
QuickSubmitToggle(i) ==
  /\ activeTab = "scan"
  /\ i \in 1..Len(results)
  /\ ShortcutOffered(results[i])
  /\ IF expandedResultId = results[i].id
     THEN /\ expandedResultId' = NoResult
          /\ UNCHANGED <<submissionForm, activeTab>>
     ELSE /\ expandedResultId' = results[i].id
          /\ submissionForm' = handleQuickSubmit(submissionForm, results[i])
          /\ activeTab' = "submit"
  /\ ev' = ""
  /\ UNCHANGED <<now, nextOp, storage, url, results, loading, submissions,
                 isSubmitting, scansStarted, scanReqs, createReqs, refreshReqs,
                 tabVars>>

(* --------------------- WebRiskDemo: submission form -------------------- *)
\* the inline form of the expanded result is rendered (lines 642, 666)
InlineFormShown ==
  /\ activeTab = "scan"
  /\ \E i \in 1..Len(results) :
       ShortcutOffered(results[i]) /\ expandedResultId = results[i].id

\* the form field is on screen: the main form holds all four (lines 752-824),
\* the inline form evidence and platform only (lines 675-709)
FieldShown(field) ==
  \/ activeTab = "submit"
  \/ InlineFormShown /\ field \in {"evidence", "platform"}

FieldOptions(field) ==
  CASE field = "url" -> UrlInputs
    [] field = "evidence" -> EvidenceInputs
    [] field = "abuseType" -> AbuseTypeOptions
    [] field = "platform" -> PlatformOptions

\* onChange of a form field: setSubmissionForm({...submissionForm, f: v})
SetFormField(field, v) ==
  /\ FieldShown(field)
  /\ v \in FieldOptions(field)
  /\ v # submissionForm[field]
  /\ submissionForm' = [submissionForm EXCEPT ![field] = v]
  /\ ev' = ""
  /\ UNCHANGED <<now, nextOp, storage, activeTab, url, results, loading,
                 submissions, expandedResultId, isSubmitting, scansStarted,
                 scanReqs, createReqs, refreshReqs, tabVars>>

\* the browser lets the main form submit: every `required` control has a
\* value (lines 766, 781, 801, 822); the abuse-type select shows its empty
\* option unless the value is one of its options
MainFormValid(form) ==
  /\ form.url # ""
  /\ form.abuseType \in ABUSE_TYPES
  /\ form.platform \in PLATFORMS
  /\ form.evidence # ""

\* the browser lets the inline form submit (lines 688, 703)
InlineFormValid(form) ==
  /\ form.evidence # ""
  /\ form.platform \in PLATFORMS

\* submit buttons that are never disabled
SubmitEnabled_Always == TRUE

\* disabled={isSubmitting} on both submit buttons (lines 714, 828)
SubmitEnabled == ~isSubmitting

\* handleSubmit up to its first await: the request carries the form, the
\* closure keeps the form and the list of the render it was started in
handleSubmitStart ==
  /\ isSubmitting' = TRUE
  /\ createReqs' = Append(createReqs,
                          [form |-> submissionForm, submissions |-> submissions])

\* submit event of the main form (line 752)
MainFormSubmit ==
  /\ activeTab = "submit"
  /\ SubmitEnabled
  /\ MainFormValid(submissionForm)
  /\ handleSubmitStart
  /\ ev' = ""
  /\ UNCHANGED <<now, nextOp, storage, activeTab, url, results, loading,
                 submissions, expandedResultId, submissionForm, scansStarted,
                 scanReqs, refreshReqs, tabVars>>

\* submit event of the inline form (lines 669-673)
InlineFormSubmit ==
  /\ InlineFormShown
  /\ SubmitEnabled
  /\ InlineFormValid(submissionForm)
  /\ handleSubmitStart
  /\ expandedResultId' = NoResult
  /\ ev' = ""
  /\ UNCHANGED <<now, nextOp, storage, activeTab, url, results, loading,
                 submissions, submissionForm, scansStarted, scanReqs,
                 refreshReqs, tabVars>>

\* what the submission backend may answer to POST /api/submit: the fetch
\* rejects, the body is no JSON, or it is JSON with or without an operation;
\* ok is response.ok, which handleSubmit never reads
CreateResponses ==
  [kind : {"rejected", "invalid"}, ok : {FALSE}, operation : {NoOperation},
   timestamp : {BackendTime(nextOp)}]
  \cup
  [kind : {"json"}, ok : BOOLEAN, operation : {NoOperation, Operation(nextOp)},
   timestamp : {BackendTime(nextOp)}]

\* the record handleSubmit builds (lines 441-451)
NewSubmission(form, data, t) ==
  [id |-> t, url |-> form.url, operation |-> data.operation,
   timestamp |-> data.timestamp, lastUpdated |-> t,
   evidence |-> form.evidence, abuseType |-> form.abuseType,
   platform |-> form.platform, status |-> "PENDING"]

\* if (data.operation): the response is taken as a success
CreateAccepted(resp) ==
  resp.kind = "json" /\ resp.operation # NoOperation

\* a create that puts the new record after the others
CreatedList_Appends(req, resp, t) ==
  req.submissions \o <<NewSubmission(req.form, resp, t)>>

\* [newSubmission, ...submissions], over the list the closure captured
CreatedList(req, resp, t) ==
  <<NewSubmission(req.form, resp, t)>> \o req.submissions

\* a handleSubmit that a failed write stops before it changed anything
CreateResolve_WriteAborts(i, resp, writeOk) ==
  /\ i \in 1..Len(createReqs)
  /\ resp.operation # NoOperation => nextOp <= MaxCreates
  /\ IF CreateAccepted(resp)
     THEN /\ IF writeOk
             THEN /\ submissions' = CreatedList(createReqs[i], resp, now)
                  /\ storage' = Stringify(CreatedList(createReqs[i], resp, now))
                  /\ submissionForm' = BlankForm
             ELSE UNCHANGED <<submissions, storage, submissionForm>>
          /\ nextOp' = nextOp + 1
          /\ ClockRead
     ELSE /\ writeOk
          /\ UNCHANGED <<submissions, storage, submissionForm, nextOp, now>>
  /\ isSubmitting' = FALSE
  /\ createReqs' = RemoveAt(createReqs, i)
  /\ ev' = IF CreateAccepted(resp) THEN "" ELSE "create failed"
  /\ UNCHANGED <<activeTab, url, results, loading, expandedResultId,
                 scansStarted, scanReqs, refreshReqs, tabVars>>

\* handleSubmit from the response to its end (lines 438-470)
CreateResolve(i, resp, writeOk) ==
  /\ i \in 1..Len(createReqs)
  /\ resp.operation # NoOperation => nextOp <= MaxCreates
  /\ IF CreateAccepted(resp)
     THEN /\ submissions' = CreatedList(createReqs[i], resp, now)
          /\ storage' = saveSubmissionsToStorage(
                           CreatedList(createReqs[i], resp, now), storage, writeOk)
          /\ submissionForm' = BlankForm
          /\ nextOp' = nextOp + 1
          /\ ClockRead
     ELSE /\ writeOk
          /\ UNCHANGED <<submissions, storage, submissionForm, nextOp, now>>
  /\ isSubmitting' = FALSE
  /\ createReqs' = RemoveAt(createReqs, i)
  /\ ev' = IF CreateAccepted(resp) THEN "" ELSE "create failed"
  /\ UNCHANGED <<activeTab, url, results, loading, expandedResultId,
                 scansStarted, scanReqs, refreshReqs, tabVars>>

(* ----------------------- WebRiskDemo: refresh -------------------------- *)
\* the status values the backend reports; a body without status gives
\* data.status === undefined
BackendStatuses == {"SUCCEEDED", "CLOSED", "RUNNING", Undefined}

\* what the backend may answer to GET /api/submission/<id>
RefreshResponses ==
  [kind : {"rejected"}, ok : {FALSE}, status : {Undefined}, details : {Undefined}]
  \cup
  [kind : {"invalid"}, ok : BOOLEAN, status : {Undefined}, details : {Undefined}]
  \cup
  [kind : {"json"}, ok : {FALSE}, status : {Undefined}, details : {"not found"}]
  \cup
  {[kind |-> "json", ok |-> TRUE, status |-> "SUCCEEDED", details |-> "reviewed"],
   [kind |-> "json", ok |-> TRUE, status |-> "CLOSED", details |-> "rejected"],
   [kind |-> "json", ok |-> TRUE, status |-> "RUNNING", details |-> Undefined]}

\* the call made for the i-th record: the request carries the poll id, the
\* closure keeps the operation and the list of the render it was started in
RefreshRequest(i) ==
  [operation |-> submissions[i].operation,
   pollId |-> PollId(submissions[i].operation),
   submissions |-> submissions]

\* the "Refresh Status" button of the i-th record (lines 868-873):
\* refreshSubmissionStatus(operation) up to its first await
RefreshClick(i) ==
  /\ activeTab = "submit"
  /\ i \in 1..Len(submissions)
  /\ BagCardinality(refreshReqs) < MaxInFlight
  /\ refreshReqs' = refreshReqs (+) SetToBag({RefreshRequest(i)})
  /\ ev' = ""
  /\ UNCHANGED <<now, nextOp, storage, activeTab, url, results, loading,
                 submissions, expandedResultId, submissionForm, isSubmitting,
                 scansStarted, scanReqs, createReqs, tabVars>>

\* a refresh that takes any parsed body, whatever the HTTP status
RefreshSucceeded_AnyBody(resp) == resp.kind = "json"

\* a refresh that copies the status only
RefreshedRecord_StatusOnly(sub, data, t) ==
  [sub EXCEPT !.status = data.status]

\* the request did not throw: fetch resolved, response.ok, body parsed
\* (lines 476-482)
RefreshSucceeded(resp) == resp.kind = "json" /\ resp.ok

\* one record after a status response (lines 486-491)
RefreshedRecord(sub, data, t) ==
  [k \in DOMAIN sub \cup {"details"} |->
     CASE k = "status" -> data.status
       [] k = "lastUpdated" -> t
       [] k = "details" -> data.details
       [] OTHER -> sub[k]]

\* submissions.map(sub => sub.operation === operation ? {...} : sub), over
\* the list the closure captured (lines 484-493)
RefreshedList(list, operation, data, t) ==
  [j \in 1..Len(list) |->
     IF list[j].operation = operation
     THEN RefreshedRecord(list[j], data, t)
     ELSE list[j]]

\* refreshSubmissionStatus from the response to its end (lines 478-499)
RefreshResolve(req, resp, writeOk) ==
  /\ BagIn(req, refreshReqs)
  /\ IF RefreshSucceeded(resp)
     THEN LET updatedSubmissions ==
                RefreshedList(req.submissions, req.operation, resp, now)
          IN /\ submissions' = updatedSubmissions
             /\ storage' = saveSubmissionsToStorage(updatedSubmissions,
                                                     storage, writeOk)
             /\ ClockRead
     ELSE /\ writeOk
          /\ UNCHANGED <<submissions, storage, now>>
  /\ refreshReqs' = refreshReqs (-) SetToBag({req})
  /\ ev' = IF RefreshSucceeded(resp) THEN "" ELSE "refresh failed"
  /\ UNCHANGED <<nextOp, activeTab, url, results, loading,
                 expandedResultId, submissionForm, isSubmitting, scansStarted,
                 scanReqs, createReqs, tabVars>>

(* ------------------------ WebRiskDemo: clear --------------------------- *)
\* a clear that does not wait for the answer
ClearConfirmed_Always(confirmed) == TRUE

\* if (window.confirm(...)) (line 321)
ClearConfirmed(confirmed) == confirmed

\* the "Clear History" button, rendered when the list is not empty
\* (lines 837-843); confirmed is the answer of window.confirm
clearSubmissionHistory(confirmed) ==
  /\ activeTab = "submit"
  /\ Len(submissions) > 0
  /\ IF ClearConfirmed(confirmed)
     THEN submissions' = <<>> /\ storage' = Absent
     ELSE UNCHANGED <<submissions, storage>>
  /\ ev' = IF ClearConfirmed(confirmed) THEN "cleared" ELSE "clear declined"
  /\ UNCHANGED <<now, nextOp, activeTab, url, results, loading,
                 expandedResultId, submissionForm, isSubmitting, scansStarted,
                 scanReqs, createReqs, refreshReqs, tabVars>>

(* ----------------------- WebRiskDemo: restart -------------------------- *)
\* the page is loaded again: every useState starts over (lines 281-294,
\* 365), the list is read from the slot, and the handlers that were waiting
\* are gone with the old page
Restart ==
  /\ activeTab' = "scan"
  /\ url' = ""
  /\ results' = <<>>
  /\ loading' = FALSE
  /\ submissions' = loadSubmissionsFromStorage(storage)
  /\ expandedResultId' = NoResult
  /\ submissionForm' = BlankForm
  /\ isSubmitting' = FALSE
  /\ scanReqs' = <<>>
  /\ createReqs' = <<>>
  /\ refreshReqs' = EmptyBag
  /\ ev' = ""
  /\ UNCHANGED <<now, nextOp, storage, scansStarted, tabVars>>

\* the submission side of WebRiskDemo: the user works on the "Submit URLs" tab
Next ==
  \/ \E t \in {"submit"} : SetActiveTab(t)
  \/ \E f \in {"url", "evidence", "abuseType"} :
       \E v \in FieldOptions(f) : SetFormField(f, v)
  \/ MainFormSubmit
  \/ \E i \in 1..Len(createReqs) : \E resp \in CreateResponses :
       \E writeOk \in BOOLEAN :
         CreateResolve(i, resp, writeOk) /\ now' <= MaxLifecycleTime
  \/ \E i \in 1..Len(submissions) : RefreshClick(i)
  \/ \E req \in BagToSet(refreshReqs) : \E resp \in RefreshResponses :
       \E writeOk \in BOOLEAN :
         RefreshResolve(req, resp, writeOk) /\ now' <= MaxLifecycleTime
  \/ \E confirmed \in BOOLEAN : clearSubmissionHistory(confirmed)
  \/ Restart

Spec == Init /\ [][Next]_vars

\* a session of creates and refreshes only, up to MaxTime
NextRefresh ==
  \/ \E t \in {"submit"} : SetActiveTab(t)
  \/ \E f \in {"url", "evidence", "abuseType"} :
       \E v \in FieldOptions(f) : SetFormField(f, v)
  \/ MainFormSubmit
  \/ \E i \in 1..Len(createReqs) : \E resp \in CreateResponses :
       \E writeOk \in BOOLEAN : CreateResolve(i, resp, writeOk)
  \/ \E i \in 1..Len(submissions) : RefreshClick(i)
  \/ \E req \in BagToSet(refreshReqs) : \E resp \in RefreshResponses :
       \E writeOk \in BOOLEAN : RefreshResolve(req, resp, writeOk)

SpecRefresh == Init /\ [][NextRefresh]_vars

\* the scan side of WebRiskDemo, with the submission shortcut it offers
NextScan ==
  \/ \E v \in UrlInputs : SetUrl(v)
  \/ \E t \in {"scan", "submit"} : SetActiveTab(t)
  \/ scansStarted < MaxQuickScans /\ ScanClick
  \/ \E i \in 1..Len(scanReqs) : \E resp \in ScanResponses : ScanResolve(i, resp)
  \/ \E i \in 1..Len(results) : QuickSubmitToggle(i)
  \/ \E f \in {"evidence", "platform"} :
       \E v \in FieldOptions(f) : SetFormField(f, v)
  \/ MainFormSubmit
  \/ InlineFormSubmit
  \/ \E i \in 1..Len(createReqs) : \E resp \in CreateResponses :
       \E writeOk \in BOOLEAN : CreateResolve(i, resp, writeOk)

SpecScan == Init /\ [][NextScan]_vars

\* a session of scans one after the other
NextScans ==
  \/ \E v \in UrlInputs : SetUrl(v)
  \/ ScanClick
  \/ \E i \in 1..Len(scanReqs) : \E resp \in ScanResponses : ScanResolve(i, resp)

SpecScans == Init /\ [][NextScans]_vars

(* ------------------------- the store by itself ------------------------- *)
\* the records WebRiskDemo can hold for the n-th report: as created, and as
\* refreshed by each answer the refresh accepts
StoreRecords(n) ==
  LET created ==
        NewSubmission([BlankForm EXCEPT !.url = "http://evil.example",
                                        !.evidence = "phish",
                                        !.abuseType = "MALWARE"],
                      [operation |-> Operation(n), timestamp |-> BackendTime(n)],
                      n)
  IN {created} \cup
     {RefreshedRecord(created, resp, n + 1) :
        resp \in {r \in RefreshResponses : RefreshSucceeded(r)}}

\* the lists WebRiskDemo can hold, newest record first
StoreLists ==
  {<<>>} \cup {<<r>> : r \in StoreRecords(1)}
         \cup {<<r2, r1>> : r2 \in StoreRecords(2), r1 \in StoreRecords(1)}

\* setSubmissions(list); saveSubmissionsToStorage(list) (lines 454-455,
\* 495-496)
SetAndSave(list, writeOk) ==
  /\ submissions' = list
  /\ storage' = saveSubmissionsToStorage(list, storage, writeOk)
  /\ ev' = IF writeOk THEN "saved" ELSE "save failed"
  /\ UNCHANGED <<now, nextOp, activeTab, url, results, loading,
                 expandedResultId, submissionForm, isSubmitting, scansStarted,
                 scanReqs, createReqs, refreshReqs, tabVars>>

\* the slot is written from outside the component: another page of the
\* origin, the developer tools, an earlier version
ExternalWrite(slot) ==
  /\ storage' = slot
  /\ ev' = "external write"
  /\ UNCHANGED <<now, nextOp, activeTab, url, results, loading, submissions,
                 expandedResultId, submissionForm, isSubmitting, scansStarted,
                 scanReqs, createReqs, refreshReqs, tabVars>>

NextStore ==
  \/ \E list \in StoreLists : \E writeOk \in BOOLEAN : SetAndSave(list, writeOk)
  \/ \E slot \in {Absent, Unparsable, NotArraySlot} : ExternalWrite(slot)
  \/ Restart

SpecStore == Init /\ [][NextStore]_vars

(* =================== SubmissionForm / SubmissionTab ==================== *)
SubmissionTypeOptions == {"", "phishing"}

SfFieldOptions(field) ==
  CASE field = "url" -> UrlInputs
    [] field = "evidence" -> EvidenceInputs
    [] field = "submissionType" -> SubmissionTypeOptions

\* onChange of a SubmissionForm control (lines 91, 108, 121)
SfSetField(field, v) ==
  /\ v \in SfFieldOptions(field)
  /\ v # sfForm[field]
  /\ sfForm' = [sfForm EXCEPT ![field] = v]
  /\ ev' = ""
  /\ UNCHANGED <<now, nextOp, demoVars, tabSubmissions, sfIsSubmitting, sfReqs,
                 bulkReqs>>

\* the browser lets the form submit: all three controls are `required`
\* (lines 94, 111, 125)
SfFormValid(form) ==
  form.submissionType # "" /\ form.url # "" /\ form.evidence # ""

\* SubmissionForm.handleSubmit up to its first await (lines 29-44); the
\* closure keeps the fields and the onSubmit prop, which is the parent's
\* handleSubmit of that render and so holds that render's list
SfSubmit ==
  /\ ~sfIsSubmitting
  /\ SfFormValid(sfForm)
  /\ sfIsSubmitting' = TRUE
  /\ sfReqs' = Append(sfReqs, [form |-> sfForm, submissions |-> tabSubmissions])
  /\ ev' = ""
  /\ UNCHANGED <<now, nextOp, demoVars, tabSubmissions, sfForm, bulkReqs>>

\* the object SubmissionForm hands to onSubmit (lines 50-57)
SfSubmission(form, data) ==
  [url |-> form.url, operation |-> data.operation,
   timestamp |-> data.timestamp, evidence |-> form.evidence,
   type |-> form.submissionType, status |-> "PENDING"]

\* SubmissionForm.handleSubmit from the response to its end (lines 46-68),
\* with SubmissionTab.handleSubmit (lines 216-218) as onSubmit
SfResolve(i, resp) ==
  /\ i \in 1..Len(sfReqs)
  /\ resp.operation # NoOperation => nextOp <= MaxCreates
  /\ IF CreateAccepted(resp)
     THEN /\ tabSubmissions' =
               <<SfSubmission(sfReqs[i].form, resp)>> \o sfReqs[i].submissions
          /\ sfForm' = BlankSfForm
          /\ nextOp' = nextOp + 1
     ELSE UNCHANGED <<tabSubmissions, sfForm, nextOp>>
  /\ sfIsSubmitting' = FALSE
  /\ sfReqs' = RemoveAt(sfReqs, i)
  /\ ev' = IF CreateAccepted(resp) THEN "" ELSE "create failed"
  /\ UNCHANGED <<now, demoVars, bulkReqs>>

\* the per-record callback of the bulk refresh once its request settled
\* (lines 224-234): a thrown fetch or json() returns the record as it was,
\* any parsed body gives {...submission, status: data.status}
BulkRefreshedRecord(sub, resp) ==
  IF resp.kind = "json"
  THEN [sub EXCEPT !.status = resp.status]
  ELSE sub

\* the indices whose callback issues a request (line 224)
PendingIndices(list) == {j \in 1..Len(list) : list[j].status = "PENDING"}

\* SubmissionTab.refreshSubmissionStatus up to its awaits (lines 221-227):
\* one request per PENDING record of this render's list; with none PENDING
\* Promise.all resolves at once and the list is set to itself
BulkRefreshClick ==
  /\ IF PendingIndices(tabSubmissions) = {}
     THEN /\ UNCHANGED bulkReqs
          /\ ev' = "refresh all: nothing pending"
     ELSE /\ Len(bulkReqs) < MaxBulk
          /\ bulkReqs' = Append(bulkReqs,
                                [submissions |-> tabSubmissions,
                                 updated |-> tabSubmissions,
                                 waiting |-> PendingIndices(tabSubmissions)])
          /\ ev' = ""
  /\ UNCHANGED <<now, nextOp, demoVars, tabSubmissions, sfForm, sfIsSubmitting,
                 sfReqs>>

\* the request of the j-th record of the r-th bulk refresh settles; when it
\* is the last one, Promise.all resolves and setSubmissions(updatedSubmissions)
\* runs (lines 236-238)
BulkSettle(r, j, resp) ==
  /\ r \in 1..Len(bulkReqs)
  /\ j \in bulkReqs[r].waiting
  /\ LET req == bulkReqs[r]
         updated == [req.updated EXCEPT
                       ![j] = BulkRefreshedRecord(req.submissions[j], resp)]
         waiting == req.waiting \ {j}
     IN IF waiting = {}
        THEN /\ tabSubmissions' = updated
             /\ bulkReqs' = RemoveAt(bulkReqs, r)
             /\ ev' = "refresh all: resolved"
        ELSE /\ bulkReqs' = [bulkReqs EXCEPT ![r].updated = updated,
                                              ![r].waiting = waiting]
             /\ ev' = ""
             /\ UNCHANGED tabSubmissions
  /\ UNCHANGED <<now, nextOp, demoVars, sfForm, sfIsSubmitting, sfReqs>>

\* what the backend may answer to one status request of the bulk refresh
BulkResponses ==
  RefreshResponses \cup
  {[kind |-> "json", ok |-> TRUE, status |-> "PENDING", details |-> Undefined]}

NextTab ==
  \/ \E f \in {"url", "evidence", "submissionType"} :
       \E v \in SfFieldOptions(f) : SfSetField(f, v)
  \/ SfSubmit
  \/ \E i \in 1..Len(sfReqs) : \E resp \in CreateResponses : SfResolve(i, resp)
  \/ BulkRefreshClick
  \/ \E r \in 1..Len(bulkReqs) : \E j \in bulkReqs[r].waiting :
       \E resp \in BulkResponses : BulkSettle(r, j, resp)

SpecTab == Init /\ [][NextTab]_vars

(* ------------------- every remote call settles ------------------------- *)
\* the remote call of a scan settles and handleScan runs to its end
ScanSettles ==
  \E i \in 1..Len(scanReqs) : \E resp \in ScanResponses : ScanResolve(i, resp)

\* the remote call of a create settles and handleSubmit runs to its end
CreateSettles ==
  \E i \in 1..Len(createReqs) : \E resp \in CreateResponses :
    \E writeOk \in BOOLEAN : CreateResolve(i, resp, writeOk)

\* the remote call of SubmissionForm settles and its handleSubmit runs to
\* its end
SfSettles ==
  \E i \in 1..Len(sfReqs) : \E resp \in CreateResponses : SfResolve(i, resp)

\* the page shows one of the two exported components (lines 253, 897); the
\* other one is not mounted and stays as constructed
DemoUnused ==
  /\ activeTab = "scan" /\ url = "" /\ scansStarted = 0
  /\ submissionForm = BlankForm /\ submissions = <<>> /\ createReqs = <<>>

TabUnused ==
  sfForm = BlankSfForm /\ tabSubmissions = <<>> /\ sfReqs = <<>>

\* a session of WebRiskDemo with one scan and the main form, or a session of
\* SubmissionForm
NextLive ==
  \/ /\ TabUnused
     /\ \/ \E v \in UrlInputs : SetUrl(v)
        \/ \E t \in {"scan", "submit"} : SetActiveTab(t)
        \/ scansStarted < MaxQuickScans /\ ScanClick
        \/ ScanSettles
        \/ \E f \in {"url", "evidence", "abuseType"} :
             \E v \in FieldOptions(f) : SetFormField(f, v)
        \/ MainFormSubmit
        \/ CreateSettles
  \/ /\ DemoUnused
     /\ \/ \E f \in {"url", "evidence", "submissionType"} :
             \E v \in SfFieldOptions(f) : SfSetField(f, v)
        \/ SfSubmit
        \/ SfSettles

\* a fetch promise settles in the end: it resolves with the response or
\* rejects (network failure, timeout of the browser), and the continuation
\* of the awaiting handler then runs
SpecLive ==
  /\ Init /\ [][NextLive]_vars
  /\ WF_vars(ScanSettles) /\ WF_vars(CreateSettles) /\ WF_vars(SfSettles)

(* ============================== claims ================================= *)
\* the operation handles of the records of a list
Operations(list) == {list[j].operation : j \in 1..Len(list)}

\* the records a slot holds
Stored(slot) == loadSubmissionsFromStorage(slot)

\* this step is the end of a handleSubmit / of a refreshSubmissionStatus
IsCreateResolve ==
  \E i \in 1..Len(createReqs) : \E resp \in CreateResponses :
    \E writeOk \in BOOLEAN : CreateResolve(i, resp, writeOk)

IsRefreshResolve ==
  \E req \in BagToSet(refreshReqs) : \E resp \in RefreshResponses :
    \E writeOk \in BOOLEAN : RefreshResolve(req, resp, writeOk)

Terminal == {"SUCCEEDED", "CLOSED"}

\* C1: once a record's status is SUCCEEDED or CLOSED, no end of a create or
\* of a refresh changes the status of that record.  Fails on the code.
C1_TerminalStatusIsFinal ==
  [][(IsCreateResolve \/ IsRefreshResolve) =>
       \A i \in 1..Len(submissions) : \A j \in 1..Len(submissions') :
         (/\ submissions[i].status \in Terminal
          /\ submissions'[j].operation = submissions[i].operation)
         => submissions'[j].status = submissions[i].status]_vars

\* C2: a refresh invoked on a record whose status is not PENDING puts no
\* request in flight and changes neither the list nor the slot.  Fails on
\* the code.
C2_NoRequestForNonPending ==
  [][\A i \in 1..Len(submissions) :
       (submissions[i].status # "PENDING" /\ RefreshClick(i))
       => UNCHANGED <<refreshReqs, submissions, storage>>]_vars

\* C3: the end of a create or of a refresh drops no record: every record of
\* the list is in the list afterwards, every record of the slot is in the slot
\* afterwards.  Fails on the code.
C3_NoRecordLost ==
  [][(IsCreateResolve \/ IsRefreshResolve) =>
       /\ Operations(submissions) \subseteq Operations(submissions')
       /\ Operations(Stored(storage)) \subseteq Operations(Stored(storage'))]_vars

\* C4: the end of a create whose response holds an operation and a timestamp
\* puts exactly one new record before the records of the list, with status
\* PENDING, the operation and the timestamp of the response, and writes the
\* new list to the slot.  Fails on the code.
C4_CreatePrependsOneRecord ==
  [][\A i \in 1..Len(createReqs) : \A resp \in CreateResponses :
       \A writeOk \in BOOLEAN :
         (/\ CreateResolve(i, resp, writeOk)
          /\ resp.kind = "json" /\ resp.ok /\ resp.operation # NoOperation)
         => /\ submissions' # <<>>
            /\ Head(submissions').status = "PENDING"
            /\ Head(submissions').operation = resp.operation
            /\ Head(submissions').timestamp = resp.timestamp
            /\ Tail(submissions') = submissions
            /\ writeOk => storage' = Stringify(submissions')]_vars

\* what the create operation is to check before its request: a url, an abuse
\* type of the enumeration, a platform of the enumeration
Validated(r) ==
  /\ r.url # ""
  /\ r.abuseType \in ABUSE_TYPES
  /\ r.platform \in PLATFORMS

\* C5: no create request is in flight for a form that fails validation, and
\* no record was made from one.  Fails on the code.
C5_CreateValidatesFirst ==
  /\ \A i \in 1..Len(createReqs) : Validated(createReqs[i].form)
  /\ \A j \in 1..Len(submissions) : Validated(submissions[j])

\* the create response is a failure: the fetch rejected, the body does not
\* parse, the status is not 2xx, or the body holds no operation
CreateFailed(resp) ==
  resp.kind # "json" \/ ~resp.ok \/ resp.operation = NoOperation

\* C6: the end of a failed create changes neither the list nor the slot nor
\* the fields of the form.  Fails on the code.
C6_FailedCreateChangesNothing ==
  [][\A i \in 1..Len(createReqs) : \A resp \in CreateResponses :
       \A writeOk \in BOOLEAN :
         (CreateResolve(i, resp, writeOk) /\ CreateFailed(resp))
         => UNCHANGED <<submissions, storage, submissionForm>>]_vars

\* the record of the request was PENDING when the refresh was started
WasPending(req) ==
  \E j \in 1..Len(req.submissions) :
    /\ req.submissions[j].operation = req.operation
    /\ req.submissions[j].status = "PENDING"

\* C7: the end of a successful refresh of a PENDING record leaves the record
\* in the list with the status and the details of the response and with
\* lastUpdated at the current time, and writes the new list to the slot.
C7_RefreshUpdatesRecord ==
  [][\A req \in BagToSet(refreshReqs) : \A resp \in RefreshResponses :
       \A writeOk \in BOOLEAN :
         (/\ RefreshResolve(req, resp, writeOk)
          /\ resp.kind = "json" /\ resp.ok
          /\ WasPending(req))
         => /\ req.operation \in Operations(submissions')
            /\ \A j \in 1..Len(submissions') :
                 submissions'[j].operation = req.operation
                 => /\ submissions'[j].status = resp.status
                    /\ "details" \in DOMAIN submissions'[j]
                    /\ submissions'[j].details = resp.details
                    /\ submissions'[j].lastUpdated = now
            /\ writeOk => storage' = Stringify(submissions')]_vars

\* a record refreshed to SUCCEEDED after it was made, and the list in the slot
C7_Witness ==
  /\ storage = Stringify(submissions)
  /\ \E j \in 1..Len(submissions) :
       /\ submissions[j].status = "SUCCEEDED"
       /\ "details" \in DOMAIN submissions[j]
       /\ submissions[j].details = "reviewed"
       /\ submissions[j].lastUpdated > submissions[j].id

\* the refresh response is a failure: the fetch rejected, the status is not
\* 2xx, or the body does not parse
RefreshFailed(resp) == resp.kind # "json" \/ ~resp.ok

\* C8: the end of a failed refresh changes neither the list nor the slot.
C8_FailedRefreshChangesNothing ==
  [][\A req \in BagToSet(refreshReqs) : \A resp \in RefreshResponses :
       \A writeOk \in BOOLEAN :
         (RefreshResolve(req, resp, writeOk) /\ RefreshFailed(resp))
         => UNCHANGED <<submissions, storage>>]_vars

\* a refresh has just failed with a PENDING record in the list
C8_Witness ==
  /\ ev = "refresh failed"
  /\ \E j \in 1..Len(submissions) : submissions[j].status = "PENDING"

\* the j-th record as the r-th bulk refresh holds it after this step
SettledRecord(r, j) ==
  IF Len(bulkReqs') = Len(bulkReqs)
  THEN bulkReqs'[r].updated[j]
  ELSE tabSubmissions'[j]

\* C9: when a status request of a refresh succeeds with a status that is
\* neither SUCCEEDED nor CLOSED, the record stays PENDING.  Fails on the code.
C9_OtherStatusStaysPending ==
  [][\A r \in 1..Len(bulkReqs) : \A j \in bulkReqs[r].waiting :
       \A resp \in BulkResponses :
         (/\ BulkSettle(r, j, resp)
          /\ resp.kind = "json" /\ resp.ok /\ resp.status \notin Terminal)
         => SettledRecord(r, j).status = "PENDING"]_vars

\* C10: when a status request of a refresh of all records fails, its record
\* is left as it was.  Fails on the code.
C10_FailedRequestLeavesRecord ==
  [][\A r \in 1..Len(bulkReqs) : \A j \in bulkReqs[r].waiting :
       \A resp \in BulkResponses :
         (BulkSettle(r, j, resp) /\ RefreshFailed(resp))
         => SettledRecord(r, j) = bulkReqs[r].submissions[j]]_vars

\* C11: the step in which the last status request of a bulk refresh settles
\* writes the refreshed list to the slot.  Fails on the code.
C11_BulkRefreshWritesOnce ==
  [][\A r \in 1..Len(bulkReqs) : \A j \in bulkReqs[r].waiting :
       \A resp \in BulkResponses :
         (BulkSettle(r, j, resp) /\ bulkReqs[r].waiting = {j})
         => storage' = Stringify(tabSubmissions')]_vars

\* C12: a declined clear changes neither the list nor the slot; a confirmed
\* clear leaves the list empty and the slot erased, so that a load finds
\* nothing.
C12_ClearAll ==
  [][\A confirmed \in BOOLEAN :
       clearSubmissionHistory(confirmed)
       => IF confirmed
          THEN /\ submissions' = <<>>
               /\ storage' = Absent
               /\ Stored(storage') = <<>>
          ELSE UNCHANGED <<submissions, storage>>]_vars

\* a confirmed clear has just emptied a list that held a record
C12_Witness ==
  /\ ev = "cleared"
  /\ nextOp > 1
  /\ submissions = <<>>
  /\ storage = Absent

\* the classification of a scan: harmless when every score of the scanned URL
\* is SAFE or LOW and the resolved URL has no scores or only SAFE or LOW ones
AllLow(scores) ==
  \A i \in 1..Len(scores) : scores[i].confidenceLevel \in {"SAFE", "LOW"}

ClassifiedSafe(scores, resolved) ==
  AllLow(scores) /\ (resolved.present => AllLow(resolved.scores))

\* C13: every result made from a response with scores has status "safe"
\* exactly when the scan classifies as harmless, and "threat" otherwise.
\* Fails on the code.
C13_StatusFollowsClassifier ==
  \A i \in 1..Len(results) :
    "scores" \in DOMAIN results[i]
    => /\ results[i].status \in {"safe", "threat"}
       /\ results[i].status = "safe"
          <=> ClassifiedSafe(results[i].scores, results[i].resolvedUriScore)

\* the levels MEDIUM and above
MediumOrAbove == {"MEDIUM", "HIGH", "HIGHER", "EXTREMELY_HIGH"}

\* scores with one more entry put after its first k entries
WithEntry(scores, k, e) ==
  SubSeq(scores, 1, k) \o <<e>> \o SubSeq(scores, k + 1, Len(scores))

\* C14: for every result with scores the verdict icon is the safe one exactly
\* when every score is SAFE or LOW and the resolved URL has no scores or only
\* SAFE or LOW ones; one more score of level MEDIUM or above, put anywhere,
\* makes the verdict the risky one.
C14_VerdictIsClassifier ==
  \A i \in 1..Len(results) :
    "scores" \in DOMAIN results[i]
    => /\ VerdictSafe(results[i])
          <=> ClassifiedSafe(results[i].scores, results[i].resolvedUriScore)
       /\ \A level \in MediumOrAbove : \A k \in 0..Len(results[i].scores) :
            ~VerdictSafe([results[i] EXCEPT !.scores =
                            WithEntry(@, k, [threatType |-> "MALWARE",
                                             confidenceLevel |-> level])])

\* a result whose own scores are harmless and whose resolved URL is not: the
\* verdict is the risky one
C14_Witness ==
  \E i \in 1..Len(results) :
    /\ "scores" \in DOMAIN results[i]
    /\ results[i].scores # <<>>
    /\ AllLow(results[i].scores)
    /\ results[i].resolvedUriScore.present
    /\ ~VerdictSafe(results[i])

\* some entry of the scores is of level MEDIUM or above
SomeMediumOrAbove(scores) ==
  \E k \in 1..Len(scores) : scores[k].confidenceLevel \in MediumOrAbove

\* C15: hasHighRisk is true exactly for the scores with an entry of level
\* MEDIUM or above, so false for the empty sequence and for scores that are
\* all SAFE or LOW; on the scan tab the shortcut of a result can be used
\* exactly when the result has scores for which it is true.
C15_SubmittableRisk ==
  /\ ~hasHighRisk(<<>>)
  /\ \A scores \in ScoreLists :
       /\ hasHighRisk(scores) <=> SomeMediumOrAbove(scores)
       /\ AllLow(scores) => ~hasHighRisk(scores)
  /\ \A i \in 1..Len(results) :
       /\ ShortcutOffered(results[i])
          <=> ("scores" \in DOMAIN results[i]
               /\ SomeMediumOrAbove(results[i].scores))
       /\ activeTab = "scan"
          => (ENABLED QuickSubmitToggle(i) <=> ShortcutOffered(results[i]))

\* the shortcut of a result whose only risky score is MEDIUM has been opened
C15_Witness ==
  \E i \in 1..Len(results) :
    /\ "scores" \in DOMAIN results[i]
    /\ SomeMediumOrAbove(results[i].scores)
    /\ \A k \in 1..Len(results[i].scores) :
         results[i].scores[k].confidenceLevel \notin {"HIGH", "HIGHER", "EXTREMELY_HIGH"}
    /\ expandedResultId = results[i].id

\* the threat type of the first entry of level MEDIUM or above, in the order
\* of the sequence; the empty value when there is none
RECURSIVE FirstRiskyType(_)
FirstRiskyType(scores) ==
  IF scores = <<>> THEN ""
  ELSE IF Head(scores).confidenceLevel \in MediumOrAbove
       THEN Head(scores).threatType
       ELSE FirstRiskyType(Tail(scores))

ScanFailed(resp) == resp.kind # "json" \/ ~resp.hasScores

\* C17: the end of a failed scan puts a result of status "error" at the head
\* of the list, without scores, whose details are the message of the
\* failure, or a generic message when the failure has none; the handler runs
\* to its end (loading is switched off).
C17_FailedScanGivesErrorResult ==
  [][\A i \in 1..Len(scanReqs) : \A resp \in ScanResponses :
       (ScanResolve(i, resp) /\ ScanFailed(resp))
       => /\ results' # <<>>
          /\ Head(results').status = "error"
          /\ Head(results').url = scanReqs[i].url
          /\ "scores" \notin DOMAIN Head(results')
          /\ Head(results').details # ""
          /\ resp.message # "" => Head(results').details = resp.message
          /\ ~loading']_vars

\* a scan that failed without a message has ended: its result shows the
\* generic message
C17_Witness ==
  /\ ~loading
  /\ \E i \in 1..Len(results) :
       /\ results[i].status = "error"
       /\ results[i].details = "Failed to scan URL"

\* C18: the end of every scan, failed or not, puts exactly one result, for
\* the URL that was scanned, before the results of the list and leaves those
\* as they were, in their order.
C18_ScanPrependsOneResult ==
  [][\A i \in 1..Len(scanReqs) : \A resp \in ScanResponses :
       ScanResolve(i, resp)
       => /\ Len(results') = Len(results) + 1
          /\ Tail(results') = results
          /\ Head(results').url = scanReqs[i].url]_vars

\* three scans of the same URL have ended, the first one failed: the list
\* holds their three results, newest first
C18_Witness ==
  /\ Len(results) = 3
  /\ results[3].status = "error"
  /\ results[1].status = "threat"
  /\ results[1].url = results[2].url
  /\ results[1].id > results[2].id
  /\ results[2].id > results[3].id

\* what reading key k of record r gives: undefined for a key the record
\* does not have
ReadKey(r, k) == IF k \in DOMAIN r THEN r[k] ELSE Undefined

\* two lists hold the same records in the same order: every read of every
\* key gives the same value in both
SameList(x, y) ==
  /\ Len(x) = Len(y)
  /\ \A i \in 1..Len(x) :
       \A k \in DOMAIN x[i] \cup DOMAIN y[i] :
         ReadKey(x[i], k) = ReadKey(y[i], k)

\* C19: when a list has been saved, a load returns the same records in the
\* same order.
C19_SaveLoadRoundTrip ==
  [][\A list \in StoreLists :
       SetAndSave(list, TRUE)
       => SameList(loadSubmissionsFromStorage(storage'), list)]_vars

\* a list of two records was saved and loaded again on a restart; the load
\* gave the record whose details were undefined without that key
C19_Witness ==
  /\ ev = ""
  /\ Len(submissions) = 2
  /\ submissions # NotAnArray
  /\ storage = Stringify(submissions)
  /\ submissions[1].operation = Operation(2)
  /\ submissions[2].operation = Operation(1)
  /\ \E j \in 1..2 : /\ submissions[j].status = "RUNNING"
                     /\ "details" \notin DOMAIN submissions[j]

\* C20: the load of a restart always gives a sequence of records, the empty
\* one when the slot is absent or does not hold a list of records.  Fails
\* on the code.
C20_LoadReturnsSequence ==
  [][Restart =>
       /\ submissions' # NotAnArray
       /\ storage \in {Absent, Unparsable, NotArraySlot}
          => submissions' = <<>>]_vars

\* C21: when the write of the slot fails at the end of a create or of a
\* successful refresh, the list in memory still gets the new or the updated
\* record and the handler runs to its end: the create resets the form and
\* switches isSubmitting off, the request is no longer in flight.
C21_FailedSaveKeepsMutation ==
  [][/\ \A i \in 1..Len(createReqs) : \A resp \in CreateResponses :
          (CreateResolve(i, resp, FALSE) /\ CreateAccepted(resp))
          => /\ submissions' # <<>>
             /\ Head(submissions').operation = resp.operation
             /\ Head(submissions').status = "PENDING"
             /\ submissionForm' = BlankForm
             /\ ~isSubmitting'
             /\ Len(createReqs') = Len(createReqs) - 1
     /\ \A req \in BagToSet(refreshReqs) : \A resp \in RefreshResponses :
          (RefreshResolve(req, resp, FALSE) /\ RefreshSucceeded(resp))
          => /\ \E j \in 1..Len(submissions') :
                  /\ submissions'[j].operation = req.operation
                  /\ submissions'[j].status = resp.status
                  /\ submissions'[j].lastUpdated = now
             /\ BagCardinality(refreshReqs') = BagCardinality(refreshReqs) - 1
    ]_vars

\* a create has ended whose write failed: the record is in the list, the
\* slot was never written, a new submission can be started
C21_Witness ==
  /\ Len(submissions) = 1
  /\ submissions[1].status = "PENDING"
  /\ storage = Absent
  /\ ~isSubmitting
  /\ createReqs = <<>>
  /\ submissionForm = BlankForm

\* the records of a list are in the order newest first of their timestamps
NewestFirst(list) ==
  \A j \in 1..Len(list) : \A k \in 1..Len(list) :
    j < k => list[j].timestamp >= list[k].timestamp

\* C22: in every state the list in memory is ordered newest first by the
\* timestamp of creation, and so is the list a reload would read.
C22_NewestFirst ==
  /\ NewestFirst(submissions)
  /\ NewestFirst(Stored(storage))

\* two records, the older one refreshed, in memory and in the slot
C22_Witness ==
  /\ Len(submissions) = 2
  /\ submissions[1].timestamp > submissions[2].timestamp
  /\ submissions[2].status = "SUCCEEDED"
  /\ storage = Stringify(submissions)

\* the fields of a record that are given at its creation
CreationKeys ==
  {"operation", "url", "evidence", "abuseType", "platform", "timestamp"}

\* C23: the end of a refresh leaves the fields given at creation of the
\* refreshed record as they were, and leaves every other record of the list
\* as it was, field by field.  Fails on the code.
C23_RefreshFrame ==
  [][\A req \in BagToSet(refreshReqs) : \A resp \in RefreshResponses :
       \A writeOk \in BOOLEAN :
         RefreshResolve(req, resp, writeOk)
         => \A j \in 1..Len(submissions) : \A k \in 1..Len(submissions') :
              submissions'[k].operation = submissions[j].operation
              => IF submissions[j].operation = req.operation
                 THEN \A key \in CreationKeys :
                        submissions'[k][key] = submissions[j][key]
                 ELSE submissions'[k] = submissions[j]]_vars

\* this step is the end of a create or of a refresh whose write failed
IsFailedSave ==
  \/ \E i \in 1..Len(createReqs) : \E resp \in CreateResponses :
       CreateResolve(i, resp, FALSE) /\ CreateAccepted(resp)
  \/ \E req \in BagToSet(refreshReqs) : \E resp \in RefreshResponses :
       RefreshResolve(req, resp, FALSE) /\ RefreshSucceeded(resp)

\* a load of the slot gives the list in memory
StoreAgrees == SameList(Stored(storage), submissions)

\* C24: the slot and the list agree at the start, and every step whose
\* write does not fail leaves both as they were or leaves them in agreement,
\* so they agree for as long as no write has failed; a restart in such a
\* state gives the list that was in memory before it.
C24_StoreAndMemoryAgree ==
  /\ StoreAgrees
  /\ [][/\ ~IsFailedSave => (StoreAgrees' \/ UNCHANGED <<submissions, storage>>)
        /\ (Restart /\ StoreAgrees) => SameList(submissions', submissions)
       ]_vars

\* a refreshed record was read back from the slot by a restart: the list is
\* the one the slot holds and no request is in flight
C24_Witness ==
  /\ StoreAgrees
  /\ createReqs = <<>>
  /\ refreshReqs = EmptyBag
  /\ \E j \in 1..Len(submissions) :
       /\ submissions[j].status = "RUNNING"
       /\ "details" \notin DOMAIN submissions[j]
       /\ submissions[j].lastUpdated > submissions[j].id

\* the operations of the records in memory or in the slot
HeldOperations == Operations(submissions) \cup Operations(Stored(storage))

\* C25: a record that is gone from the list and from the slot, as every
\* record is after a confirmed clear, does not come back: no step puts into
\* the list or into the slot a record whose operation the backend issued
\* before the step and that neither of them held.  Fails on the code.
C25_ClearedRecordsStayGone ==
  [][\A n \in 1..MaxCreates :
       (n < nextOp /\ Operation(n) \notin HeldOperations)
       => Operation(n) \notin HeldOperations']_vars

\* C26: the in-progress flags always clear: once the remote call of a scan
\* or of a create settles, whatever its outcome, loading, isSubmitting and
\* the isSubmitting of SubmissionForm become false again.
C26_FlagsAlwaysClear ==
  /\ loading ~> ~loading
  /\ isSubmitting ~> ~isSubmitting
  /\ sfIsSubmitting ~> ~sfIsSubmitting

\* a scan and then a create have both failed, and both flags are clear
C26_Witness ==
  /\ ev = "create failed" /\ ~isSubmitting /\ createReqs = <<>>
  /\ Len(results) > 0 /\ results[1].status = "error"
  /\ ~loading /\ scanReqs = <<>>

\* C27: at most one create request is in flight: isSubmitting is set exactly
\* while one is, and while it is set neither the main form nor the inline
\* form can start another, so no two records carry the same report.
C27_OneCreateInFlight ==
  /\ Len(createReqs) <= 1
  /\ isSubmitting <=> createReqs # <<>>
  /\ isSubmitting => ~ENABLED MainFormSubmit /\ ~ENABLED InlineFormSubmit
  /\ \A j, k \in 1..Len(submissions) :
       submissions[j].operation = submissions[k].operation => j = k

\* a create is in flight while the inline form is open again and filled in
C27_Witness ==
  /\ isSubmitting /\ Len(createReqs) = 1
  /\ InlineFormShown /\ InlineFormValid(submissionForm)

====
